---------------------------- MODULE Spec2Model ----------------------------
(***************************************************************************)
(* Smart Ticket Resolution Estimator (Project3).                           *)
(*                                                                         *)
(* The model follows TicketProcessor of backend/rag_chain.py and           *)
(* VectorStoreManager.search_similar of backend/vector_store.py.  One      *)
(* caller submits requests to process_ticket_request one after the other;  *)
(* the position inside the running call is pc.  The adapters (Redis,       *)
(* Weaviate, Azure AI Search, the embedding model and the LLM) are the     *)
(* environment: each call to one of them either answers or raises.         *)
(*                                                                         *)
(* Code optimizer (Project2).  Three further machines over their own       *)
(* variables: the session endpoints of backend/main.py, the retry loop of  *)
(* optimise_with_guardrails of backend/optimizers.py, and withRetry of the *)
(* frontend's src/api.js.                                                  *)
(***************************************************************************)
EXTENDS Integers, FiniteSets, Sequences, TLC

VARIABLES
    config,        \* fields set by TicketProcessor.__init__
    cache,         \* Redis: query key -> stored entry with its remaining TTL
    index,         \* documents of the Azure AI Search index
    ncalls,        \* calls of process_ticket_request submitted so far
    pc,            \* position inside process_ticket_request
    req,           \* arguments (description, locationID) of the running call
    ids,           \* locals TicketID, customer_id
    matches,       \* the match list the estimate is computed from
    ticket_data,   \* local ticket_data
    notification,  \* local notification
    resp,          \* what the call returned to its caller
    calls,         \* number of invocations of each adapter by the running call
    outcome,       \* what each strategy of the cascade did in the running call
    cacheHit,      \* the running call was answered from the cache
    indexed,       \* add_ticket_to_search stored the returned ticket
    query_text,    \* the text the running call gave its last search
    other,         \* the call a second worker serves at the same time
    STATE_,        \* main.py: STATE, session id -> repo_path and feedback
    cookies,       \* main.py: the session cookie each client holds
    issued,        \* main.py: session tokens signed so far
    http,          \* main.py: the last request served and its response
    opc,           \* position inside optimise_with_guardrails
    code,          \* optimise_with_guardrails: argument code
    feedback_history, \* optimise_with_guardrails: argument feedback_history
    attempt,       \* optimise_with_guardrails: loop variable attempt
    optimised,     \* optimise_with_guardrails: local optimised
    ended,         \* optimise_with_guardrails: what the call returned or raised
    log,           \* optimise_with_guardrails: records written to _LOGGER
    rounds,        \* optimise_with_guardrails: calls of _optimize_once made
    rpc,           \* position inside withRetry
    fn,            \* withRetry: the wrapped API call
    maxRetries,    \* withRetry: argument maxRetries
    retries,       \* withRetry: local retries
    error,         \* withRetry: the error caught last
    settled,       \* withRetry: how the returned promise settled
    fetches        \* withRetry: calls of fn and of createSession made

\* The variables of the ticket service.
ticketVars == <<config, cache, index, ncalls, pc, req, ids, matches, ticket_data,
                notification, resp, calls, outcome, cacheHit, indexed,
                query_text, other>>

\* The variables of the session endpoints of main.py.
sessionVars == <<STATE_, cookies, issued, http>>

\* The variables of optimise_with_guardrails.
guardVars == <<opc, code, feedback_history, attempt, optimised, ended, log,
               rounds>>

\* The variables of withRetry.
retryVars == <<rpc, fn, maxRetries, retries, error, settled, fetches>>

\* The variables of the code optimizer.
optimizerVars == <<sessionVars, guardVars, retryVars>>

vars == <<ticketVars, optimizerVars>>

---------------------------------------------------------------------------
\* Bounds of the model.

\* Calls of process_ticket_request in one run.
MaxCalls == 2

\* Whitespace characters around the text of a padded description.
MaxPad == 2

\* Seconds in one step of the clock, and the steps that may pass between
\* two calls.
TickSecs == 1800

MaxTicks == 2

\* Calls the first worker serves while a second worker runs beside it.
MaxRaceCalls == 1

---------------------------------------------------------------------------
\* Constants of the program.

\* _validate_query: minimum length of the stripped query.
MIN_QUERY_LENGTH == 20

\* _summarize_text: max_length default.
SUMMARY_MAX_LENGTH == 1500

\* _summarize_text: length kept by the truncation fallback.
TRUNCATE_LENGTH == 500

\* _calculate_estimated_time: default hours.
DEFAULT_HOURS == 24

\* _cache_result: ttl default.
CACHE_TTL == 3600

\* _create_ticket: clusterID of a new ticket.
DEFAULT_CLUSTER == 5

---------------------------------------------------------------------------
\* Inputs.

\* A description is its count of non-whitespace text characters and the
\* count of whitespace characters around them.
Desc(ws, text) == [ws |-> ws, text |-> text]

Descriptions ==
    { Desc(0, 0), Desc(MIN_QUERY_LENGTH, 0),
      Desc(0, MIN_QUERY_LENGTH - 1), Desc(MaxPad, MIN_QUERY_LENGTH - 1),
      Desc(0, MIN_QUERY_LENGTH) }

Locations == {"", "15"}

\* Every description at location "15", and a valid one with the empty
\* location.
Requests ==
    { [description |-> d, locationID |-> "15"] : d \in Descriptions }
    \cup { [description |-> Desc(0, MIN_QUERY_LENGTH), locationID |-> ""] }

\* A description of exactly the length _summarize_text leaves alone, and
\* one a character longer.
LongRequests ==
    { [description |-> Desc(0, SUMMARY_MAX_LENGTH), locationID |-> "15"],
      [description |-> Desc(0, SUMMARY_MAX_LENGTH + 1), locationID |-> "15"] }

\* The request of the first worker when two workers run.
RaceRequests ==
    { [description |-> Desc(0, MIN_QUERY_LENGTH), locationID |-> "15"] }

NoRequest == [description |-> Desc(0, 0), locationID |-> "none"]

len(d) == d.ws + d.text

strip(d) == Desc(0, d.text)

\* _validate_query without the strip: the length of the raw query is tested.
_validate_query_raw(query) ==
    IF len(query) = 0
    THEN "Query cannot be empty"
    ELSE IF len(query) < MIN_QUERY_LENGTH
         THEN "Query too short - please provide more details"
         ELSE "ok"

\* _validate_query: the message of the ValueError it raises, "ok" when it
\* returns.
_validate_query(query) ==
    IF len(query) = 0 \/ len(strip(query)) = 0
    THEN "Query cannot be empty"
    ELSE IF len(strip(query)) < MIN_QUERY_LENGTH
         THEN "Query too short - please provide more details"
         ELSE "ok"

---------------------------------------------------------------------------
\* Documents.

\* A resolution-time property as it is stored: a numeric string, a string
\* that is no number, or no property at all.
Num(n) == [kind |-> "num", val |-> n]

Bad == [kind |-> "bad", val |-> 0]

Absent == [kind |-> "absent", val |-> 0]

\* An object of a Weaviate collection.
WObj(id, loc, est, act) ==
    [TicketID |-> id, locationID |-> loc,
     estimated_resolution_time |-> est, actual_resolution_time |-> act]

\* A document of the Azure AI Search index; customerID 0: no such field;
\* content_vector: the document carries an embedding.
IDoc(id, cust, loc, est, vector) ==
    [TicketID |-> id, customerID |-> cust, locationID |-> loc,
     estimated_resolution_time |-> est, content_vector |-> vector]

\* Objects the active-ticket collection may hold.
ActiveObjects ==
    { WObj(101, "15", Num(10), Absent), WObj(102, "15", Bad, Absent) }

\* Objects the historic-ticket collection may hold: one with the time it
\* took, one that carries an estimate only.
HistoryObjects ==
    { WObj(201, "15", Absent, Num(30)), WObj(202, "16", Num(40), Absent) }

\* The search index when the service starts.
SeedIndex ==
    { IDoc(7, 3, "15", Num(0), TRUE), IDoc(9, 0, "16", Num(20), TRUE) }

\* random.randint(10001, 99999) and random.randint(1000, 9999) of the
\* fallback of _get_next_ids: one number of each range.
RandomTicketIDs == {10001}

RandomCustomerIDs == {1000}

\* Document(page_content, metadata) as search_similar and the Azure
\* strategies build it.
Document(id, loc, est, act) ==
    [TicketID |-> id, locationID |-> loc,
     estimated_resolution_time |-> est, actual_resolution_time |-> act]

---------------------------------------------------------------------------
\* VectorStoreManager.search_similar (vector_store.py).

\* near_vector(limit): the limit nearest objects among those that pass the
\* filter; with no more than limit of them, all of them.
near_vector(objects, limit) ==
    { S \in SUBSET objects :
        Cardinality(S) = IF Cardinality(objects) < limit
                         THEN Cardinality(objects) ELSE limit }

\* The metadata of one result: estimated_resolution_time when the object
\* has it, else actual_resolution_time when it has that.
result_metadata(o) ==
    IF o.estimated_resolution_time.kind # "absent"
    THEN Document(o.TicketID, o.locationID, o.estimated_resolution_time, Absent)
    ELSE Document(o.TicketID, o.locationID, Absent, o.actual_resolution_time)

\* The filter is built only for a truthy locationID.
location_filter(objects, locationID) ==
    IF locationID # ""
    THEN { o \in objects : o.locationID = locationID }
    ELSE objects

\* A search either returns a match list or raises.
Returned(m) == [raised |-> FALSE, matches |-> m]

Raised == [raised |-> TRUE, matches |-> {}]

\* search_similar without its try: the failure reaches the caller.
search_similar_raising(objects, locationID, limit, failed) ==
    IF failed
    THEN { Raised }
    ELSE { Returned({ result_metadata(o) : o \in S }) :
             S \in near_vector(location_filter(objects, locationID), limit) }

\* What search_similar may give.  Its whole body is inside one try: a
\* failure of the embedding call or of the Weaviate query is logged and
\* the method returns [].
search_similar(objects, locationID, limit, failed) ==
    IF failed
    THEN { Returned({}) }
    ELSE { Returned({ result_metadata(o) : o \in S }) :
             S \in near_vector(location_filter(objects, locationID), limit) }

---------------------------------------------------------------------------
\* TicketProcessor (rag_chain.py): the strategies.

\* limit of the vector searches and top of the filtered Azure searches.
SEARCH_LIMIT == 15

\* top of the global search.
GLOBAL_TOP == 10

Strategies ==
    <<"VECTOR_ACTIVE", "VECTOR_HISTORIC", "HYBRID_SEARCH", "TEXT_ONLY_SEARCH",
      "GLOBAL_SEARCH">>

StrategySet == { Strategies[i] : i \in 1..Len(Strategies) }

\* Position of a strategy in the cascade.
Position(s) == CHOOSE i \in 1..Len(Strategies) : Strategies[i] = s

\* ticket_type_of with the types of the two Azure strategies exchanged.
ticket_type_swapped(s) ==
    CASE s = "VECTOR_ACTIVE" -> "new_active_ticket"
      [] s = "VECTOR_HISTORIC" -> "new_historic_ticket"
      [] s = "HYBRID_SEARCH" -> "new_text_search_ticket"
      [] s = "TEXT_ONLY_SEARCH" -> "new_azure_search_ticket"
      [] s = "GLOBAL_SEARCH" -> "new_global_search_ticket"

\* The ticket_type process_ticket_request returns when strategy s matched.
ticket_type_of(s) ==
    CASE s = "VECTOR_ACTIVE" -> "new_active_ticket"
      [] s = "VECTOR_HISTORIC" -> "new_historic_ticket"
      [] s = "HYBRID_SEARCH" -> "new_azure_search_ticket"
      [] s = "TEXT_ONLY_SEARCH" -> "new_text_search_ticket"
      [] s = "GLOBAL_SEARCH" -> "new_global_search_ticket"

SuccessTypes == { ticket_type_of(s) : s \in StrategySet }

FailureTypes == {"invalid_query", "validation_error", "error"}

\* _search_vector_store: what a call may give.  No store: [].  Anything
\* that search_similar raises is raised again as RuntimeError.
_search_vector_store(configured, objects, locationID, failed) ==
    IF ~configured
    THEN { Returned({}) }
    ELSE { IF r.raised THEN Raised ELSE Returned(r.matches) :
             r \in search_similar(objects, locationID, SEARCH_LIMIT, failed) }

\* The documents of the index a search request with this filter and top
\* may give back: any top or fewer of those that pass the filter.
search_results(docs, filtered, locationID, top) ==
    { S \in SUBSET { d \in docs : ~filtered \/ d.locationID = locationID } :
        Cardinality(S) <= top }

\* The Document the Azure strategies build of a search result.
azure_document(d) ==
    Document(d.TicketID, d.locationID,
             IF d.estimated_resolution_time.kind = "absent"
             THEN Bad ELSE d.estimated_resolution_time,
             Absent)

\* search_params['vector_queries'] is set in _search_azure_hybrid: only
\* with an embedding model and a vector field, and only when the embedding
\* call and the construction of the query went through.
vector_queries(embedding_model, vector_field_name, embedFailed) ==
    embedding_model /\ vector_field_name /\ ~embedFailed

\* _search_azure_hybrid without the inner try: a failure of the embedding
\* call ends the search like a failure of the search call.
_search_azure_hybrid_strict(docs, locationID, embedding_model, vector_field_name, embedFailed, searchFailed) ==
    IF searchFailed \/ (embedding_model /\ vector_field_name /\ embedFailed)
    THEN { Raised }
    ELSE { Returned({ azure_document(d) : d \in S }) :
             S \in search_results(docs, TRUE, locationID, SEARCH_LIMIT) }

\* _search_azure_hybrid: the text query with the location filter is always
\* sent; a failure of the embedding call is logged and the search goes on
\* with the text alone; a failure of the search call is raised again as
\* RuntimeError.
_search_azure_hybrid(docs, locationID, embedding_model, vector_field_name, embedFailed, searchFailed) ==
    IF searchFailed
    THEN { Raised }
    ELSE { Returned({ azure_document(d) : d \in S }) :
             S \in search_results(docs, TRUE, locationID, SEARCH_LIMIT) }

\* _search_azure_text_only: a failure of the search call is raised again
\* as RuntimeError.
_search_azure_text_only(docs, locationID, searchFailed) ==
    IF searchFailed
    THEN { Raised }
    ELSE { Returned({ azure_document(d) : d \in S }) :
             S \in search_results(docs, TRUE, locationID, SEARCH_LIMIT) }

\* The global search inside process_ticket_request: no filter; a failure
\* is logged there and the call goes on to the invalid-query response.
global_search(docs, locationID, searchFailed) ==
    IF searchFailed
    THEN { Returned({}) }
    ELSE { Returned({ azure_document(d) : d \in S }) :
             S \in search_results(docs, FALSE, locationID, GLOBAL_TOP) }

---------------------------------------------------------------------------
\* TicketProcessor: estimate, ticket, notification, identifiers.

\* match_time with the except branch appending 0.0.
match_time_zero(doc, ticket_type) ==
    LET t == IF ticket_type = "active"
             THEN doc.estimated_resolution_time
             ELSE doc.actual_resolution_time
    IN IF t.kind = "num" THEN t.val ELSE 0

\* float(time_str) of one match: the field is chosen by ticket_type, a
\* missing field reads as '24', and a string that is no number counts as
\* 24.0 (the except branch appends it).
match_time(doc, ticket_type) ==
    LET t == IF ticket_type = "active"
             THEN doc.estimated_resolution_time
             ELSE doc.actual_resolution_time
    IN IF t.kind = "num" THEN t.val ELSE DEFAULT_HOURS

RECURSIVE sum_times(_, _)
sum_times(docs, ticket_type) ==
    IF docs = {}
    THEN 0
    ELSE LET d == CHOOSE x \in docs : TRUE
         IN match_time(d, ticket_type) + sum_times(docs \ {d}, ticket_type)

\* _calculate_estimated_time: int(np.mean(times)), 24 without matches.
_calculate_estimated_time(docs, ticket_type) ==
    IF docs = {}
    THEN DEFAULT_HOURS
    ELSE sum_times(docs, ticket_type) \div Cardinality(docs)

\* A text a ticket carries: the description as given, a summary the LLM
\* wrote, or the first kept characters of the description and "...".
Text(form, d, kept) == [form |-> form, of |-> d, kept |-> kept]

\* _summarize_text: the LLM is asked only for a text longer than
\* max_length; llmFailed is whether that call raises.
_summarize_text(d, llmFailed) ==
    IF len(d) <= SUMMARY_MAX_LENGTH
    THEN Text("original", d, len(d))
    ELSE IF llmFailed
         THEN Text("truncated", d, TRUNCATE_LENGTH)
         ELSE Text("summary", d, 0)

summarize_calls_llm(d) == len(d) > SUMMARY_MAX_LENGTH

\* _create_ticket that leaves the ticket without a cluster.
_create_ticket_unclustered(TicketID, customer_id, locationID, d, estimated_time, llmFailed) ==
    [TicketID |-> TicketID, customerID |-> customer_id,
     locationID |-> locationID, type |-> "complaint",
     description |-> _summarize_text(d, llmFailed),
     clusterID |-> 0,
     estimated_resolution_time |-> estimated_time]

\* _create_ticket.
_create_ticket(TicketID, customer_id, locationID, d, estimated_time, llmFailed) ==
    [TicketID |-> TicketID, customerID |-> customer_id,
     locationID |-> locationID, type |-> "complaint",
     description |-> _summarize_text(d, llmFailed),
     clusterID |-> DEFAULT_CLUSTER,
     estimated_resolution_time |-> estimated_time]

\* A notification: what the LLM wrote for a matching method, the template
\* with the ticket's hours, or one of the fixed texts.
Notification(kind, arg, hours) ==
    [kind |-> kind, arg |-> arg, hours |-> hours]

\* _generate_notification that gives the apology of the error response
\* when the LLM call fails.
_generate_notification_apology(ticket, matching_method, llmFailed) ==
    IF llmFailed
    THEN Notification("apology", "", 0)
    ELSE Notification("llm", matching_method, ticket.estimated_resolution_time)

\* _generate_notification: the LLM's text, the template when the call fails.
_generate_notification(ticket, matching_method, llmFailed) ==
    IF llmFailed
    THEN Notification("template", "", ticket.estimated_resolution_time)
    ELSE Notification("llm", matching_method, ticket.estimated_resolution_time)

\* The matching method the notification prompt is given for each strategy.
matching_method(s, vector_field_name) ==
    CASE s = "VECTOR_ACTIVE" -> "Vector Search - Active Tickets"
      [] s = "VECTOR_HISTORIC" -> "Vector Search - Historic Tickets"
      [] s = "HYBRID_SEARCH" ->
            IF vector_field_name
            THEN "Hybrid Search (Text + Vector)" ELSE "Text Search"
      [] s = "TEXT_ONLY_SEARCH" -> "Text Search"
      [] s = "GLOBAL_SEARCH" -> "Global Search (No Location Filter)"

\* The resolution-time field _calculate_estimated_time is told to read.
time_field_of(s) == IF s = "VECTOR_HISTORIC" THEN "historic" ELSE "active"

Max(S) == CHOOSE x \in S : \A y \in S : y <= x

\* _get_next_ids without the + 1: the largest identifiers themselves.
_get_next_ids_max(docs, scanFailed) ==
    IF scanFailed
    THEN RandomTicketIDs \X RandomCustomerIDs
    ELSE LET tids == { d.TicketID : d \in { x \in docs : x.TicketID # 0 } }
             cids == { d.customerID : d \in { x \in docs : x.customerID # 0 } }
         IN { << IF tids = {} THEN 0 ELSE Max(tids),
                 IF cids = {} THEN 0 ELSE Max(cids) >> }

\* _get_next_ids: one more than the largest TicketID and the largest
\* customer id of the index (0 for a field no document has); two random
\* numbers when the scan fails.
_get_next_ids(docs, scanFailed) ==
    IF scanFailed
    THEN RandomTicketIDs \X RandomCustomerIDs
    ELSE LET tids == { d.TicketID : d \in { x \in docs : x.TicketID # 0 } }
             cids == { d.customerID : d \in { x \in docs : x.customerID # 0 } }
         IN { << (IF tids = {} THEN 0 ELSE Max(tids)) + 1,
                 (IF cids = {} THEN 0 ELSE Max(cids)) + 1 >> }

---------------------------------------------------------------------------
\* TicketProcessor.process_ticket_request: the responses it builds itself.

Response(ticket_type, ticket, note) ==
    [ticket_type |-> ticket_type, ticket_data |-> ticket, notification |-> note]

\* invalid_ticket that keeps the default estimate.
invalid_ticket_default(TicketID, customer_id, locationID) ==
    [TicketID |-> TicketID, customerID |-> customer_id,
     locationID |-> locationID, type |-> "invalid_query",
     description |-> "Please provide more specific details about your technical issue.",
     clusterID |-> 0, estimated_resolution_time |-> DEFAULT_HOURS,
     is_valid |-> FALSE]

\* The ticket of the invalid-query response.
invalid_ticket(TicketID, customer_id, locationID) ==
    [TicketID |-> TicketID, customerID |-> customer_id,
     locationID |-> locationID, type |-> "invalid_query",
     description |-> "Please provide more specific details about your technical issue.",
     clusterID |-> 0, estimated_resolution_time |-> 0, is_valid |-> FALSE]

\* error_ticket that keeps the default estimate.
error_ticket_default(type, locationID, message) ==
    [TicketID |-> 0, customerID |-> 0, locationID |-> locationID,
     type |-> type, description |-> message,
     clusterID |-> 0, estimated_resolution_time |-> DEFAULT_HOURS,
     is_valid |-> FALSE]

\* The ticket of the two except clauses.
error_ticket(type, locationID, message) ==
    [TicketID |-> 0, customerID |-> 0, locationID |-> locationID,
     type |-> type, description |-> message,
     clusterID |-> 0, estimated_resolution_time |-> 0, is_valid |-> FALSE]

\* An exception that reaches the outermost try of process_ticket_request.
Exc(type, message) == [type |-> type, message |-> message]

\* process_ticket_request with the except ValueError clause alone: any
\* other exception reaches the caller.
except_value_error_only(e, locationID) ==
    IF e.type = "ValueError"
    THEN Response("validation_error",
                  error_ticket("validation_error", locationID, e.message),
                  Notification("validation", e.message, 0))
    ELSE Response("raised", [type |-> "none"], Notification("none", "", 0))

\* The two except clauses of process_ticket_request: ValueError gives the
\* validation_error response, any other exception the error response.
except_clauses(e, locationID) ==
    IF e.type = "ValueError"
    THEN Response("validation_error",
                  error_ticket("validation_error", locationID, e.message),
                  Notification("validation", e.message, 0))
    ELSE Response("error",
                  error_ticket("error", locationID, e.message),
                  Notification("apology", "", 0))

\* invalid_query_response that reports the exhausted cascade as an error.
invalid_query_response_error(TicketID, customer_id, locationID) ==
    Response("error",
             error_ticket("error", locationID, "no matches"),
             Notification("apology", "", 0))

\* The response of an exhausted cascade.
invalid_query_response(TicketID, customer_id, locationID) ==
    Response("invalid_query",
             invalid_ticket(TicketID, customer_id, locationID),
             Notification("more_details", "", 0))

---------------------------------------------------------------------------
\* The cache (Redis).

Keys == Requests \cup LongRequests

NoEntry == [present |-> FALSE]

\* json.dumps of the result tuple and json.loads of the stored string: the
\* tuple comes back as the two-element list the call unpacks.
json_dumps(result) == [json |-> <<result[1], result[2]>>]

json_loads(str) == str.json

\* setex(key, ttl, value).
setex(store, key, ttl, value) ==
    [store EXCEPT ![key] = [present |-> TRUE, value |-> value, ttl |-> ttl]]

\* _cache_result that stores the entry for twice the time it is given.
_cache_result_twice(store, redis_client, key, result, ttl, failed) ==
    IF ~redis_client \/ failed
    THEN store
    ELSE setex(store, key, 2 * ttl, json_dumps(result))

\* _cache_result without the test of the client: it writes whenever setex
\* does not fail.
_cache_result_clientless(store, redis_client, key, result, ttl, failed) ==
    IF failed
    THEN store
    ELSE setex(store, key, ttl, json_dumps(result))

\* _cache_result: nothing without a client; a failure of setex is logged.
_cache_result(store, redis_client, key, result, ttl, failed) ==
    IF ~redis_client \/ failed
    THEN store
    ELSE setex(store, key, ttl, json_dumps(result))

\* _get_cached_result without its try: a failure of get reaches the
\* caller, which answers with the error result.
_get_cached_result_unguarded(store, redis_client, key, failed) ==
    IF ~redis_client
    THEN <<>>
    ELSE IF failed
         THEN <<"error", error_ticket("error", key.locationID, "redis")>>
         ELSE IF ~store[key].present THEN <<>> ELSE json_loads(store[key].value)

\* _get_cached_result: None without a client, for a missing key and when
\* get fails; None is the empty tuple here.
_get_cached_result(store, redis_client, key, failed) ==
    IF ~redis_client \/ failed \/ ~store[key].present
    THEN <<>>
    ELSE json_loads(store[key].value)

\* The entries of the store after secs seconds: an entry whose time to
\* live has run out is gone.
expire(store, secs) ==
    [k \in DOMAIN store |->
        IF store[k].present /\ store[k].ttl > secs
        THEN [store[k] EXCEPT !.ttl = @ - secs]
        ELSE NoEntry]

---------------------------------------------------------------------------
\* State.

Configs ==
    [has_active_vectors : BOOLEAN, has_historic_vectors : BOOLEAN,
     redis_client : BOOLEAN, embedding_model : {TRUE},
     vector_field_name : {TRUE}]

\* The service without vector stores, with or without an embedding model
\* and a vector field in the index.
HybridConfigs ==
    [has_active_vectors : {FALSE}, has_historic_vectors : {FALSE},
     redis_client : BOOLEAN, embedding_model : BOOLEAN,
     vector_field_name : BOOLEAN]

Adapters ==
    {"cache_get", "cache_set", "ids_scan", "vector_search", "index_search",
     "embed", "llm"}

NoTicket == [type |-> "none"]

NoText == Text("none", Desc(0, 0), 0)

NoNotification == Notification("none", "", 0)

NoResponse == Response("none", NoTicket, NoNotification)

\* The methods of TicketProcessor whose invocations are counted as well.
Helpers == {"_summarize_text"}

\* The assignments of a call that are counted: the vector query attached
\* to the parameters of the hybrid search.
Assignments == {"vector_queries"}

NoCalls == [a \in Adapters \cup StrategySet \cup Helpers \cup Assignments |-> 0]

NotCalled == [s \in StrategySet |-> "not_called"]

\* The second worker has not taken its request yet.
OtherIdle == [pc |-> "idle", ids |-> <<0, 0>>, seen |-> {}]

---------------------------------------------------------------------------
\* Code optimizer, backend/main.py: sessions and the per-session state.

\* Browsers that talk to the API.
Clients == {"A", "B"}

\* Session tokens signed in one run.
MaxSessions == 3

\* Feedback texts kept in one feedback list.
MaxFeedback == 2

\* request.cookies.get("session") of a client that holds no cookie.
NoCookie == [payload |-> "none", stamp |-> 0]

\* _SIGNER.dumps(obj): the payload, signed together with the time of
\* signing.
dumps(obj, at) == [payload |-> obj, stamp |-> at]

\* _SIGNER.loads(token, max_age): the payload of a token whose signature
\* is good and not older than max_age.
loads(token) == token.payload

\* set_session_cookie: token = _SIGNER.dumps("ok").
set_session_cookie(at) == dumps("ok", at)

\* get_session_token: 401 without a cookie, else the payload of the token.
get_session_token(cookie) ==
    IF cookie = NoCookie
    THEN [status |-> 401, session_id |-> "none"]
    ELSE [status |-> 200, session_id |-> loads(cookie)]

\* repo_path of a session that has cloned nothing.
NoRepo == "None"

\* req.feedback left out.
NoFeedback == "None"

\* The value _state gives a session id it has not seen.
NewState == [repo_path |-> NoRepo, feedback |-> <<>>]

\* _state: STATE.setdefault(session_id, {"repo_path": None, "feedback": []});
\* the dictionary after the call.
_state(S, session_id) ==
    IF session_id \in DOMAIN S THEN S ELSE S @@ (session_id :> NewState)

\* Repository URLs, as their path segments.
Urls == { <<"o1", "x">>, <<"o2", "y">>, <<"o2", "x">> }

\* clone_repo: dest = base_dir / url.split("/")[-1].
clone_repo(url) == url[Len(url)]

\* Feedback texts of a request to /optimise.
Feedbacks == {"f1", "f2"}

\* How optimise_with_guardrails ends inside the endpoint: it returns, raises
\* ValueError or RuntimeError, or a call to the LLM raises something else.
GuardrailOutcomes == {"returned", "ValueError", "RuntimeError", "Exception"}

\* The status the endpoint /optimise answers with.
optimise_status(r) ==
    CASE r = "returned"     -> 200
      [] r = "ValueError"   -> 400
      [] r = "RuntimeError" -> 500
      [] OTHER              -> 500

\* No request served yet.
NoHttp == [client |-> "none", endpoint |-> "none", status |-> 0, body |-> "none"]

\* The session endpoints before any request.
SessionIdle ==
    /\ STATE_ = [s \in {} |-> NewState]
    /\ cookies = [c \in Clients |-> NoCookie]
    /\ issued = 0
    /\ http = NoHttp

---------------------------------------------------------------------------
\* Code optimizer, backend/optimizers.py: optimise_with_guardrails.

MAX_RETRIES == 3

\* Codes handed to optimise_with_guardrails.
Codes == {"c1", "c2", "c3"}

\* Feedback histories handed to optimise_with_guardrails.
Histories == { <<>>, <<"f1">>, <<"f1", "f2">> }

\* A loop that tries once more than MAX_RETRIES.
attempts_one_more == 1 .. (MAX_RETRIES + 1)

\* range(1, MAX_RETRIES + 1)
attempts == 1 .. MAX_RETRIES

\* No code: the local optimised before the first round.
NoCode == [of |-> "none", round |-> 0]

\* _optimize_once(code): the answer of the LLM in this round.
_optimize_once(c, round) == [of |-> c, round |-> round]

\* The call has not ended.
NotEnded == [kind |-> "running", value |-> NoCode]

\* return optimised
Return_(v) == [kind |-> "return", value |-> v]

\* raise of an exception of class k
Raises(k) == [kind |-> k, value |-> NoCode]

\* optimise_with_guardrails before it is called.
GuardIdle ==
    /\ opc = "idle"
    /\ code = "none"
    /\ feedback_history = <<>>
    /\ attempt = 0
    /\ optimised = NoCode
    /\ ended = NotEnded
    /\ log = <<>>
    /\ rounds = 0

---------------------------------------------------------------------------
\* Code optimizer, frontend/src/api.js: withRetry.

\* maxRetries = 2
DEFAULT_MAX_RETRIES == 2

\* Largest maxRetries a caller passes.
MaxRetriesArg == 2

\* The API calls wrapped in withRetry.
ApiCalls == {"cloneRepo", "getFile", "optimise"}

\* The word the error of each API call starts with.
label(f) == IF f = "cloneRepo" THEN "clone" ELSE f

\* Error messages, as their words.  `<call> failed (<status>)` is thrown by
\* the wrapped call itself; the others are thrown by fetch or by reading the
\* body, whose texts are the runtime's.
FnMessages(f) ==
    { <<label(f), "failed", "(401)">>, <<label(f), "failed", "(500)">>,
      <<"Failed", "to", "fetch">>, <<"invalid", "session", "token">>,
      <<"Session", "expired">> }

\* Error messages createSession throws: `session failed` on a response that
\* is not ok, or the error of fetch.
SessionMessages == { <<"session", "failed">>, <<"Failed", "to", "fetch">> }

\* error.message.includes(word), on the words of the message.
includes(message, word) == \E i \in 1 .. Len(message) : message[i] = word

\* A catch clause that retries whatever the error says.
should_retry_any(message, n, max) == n < max

\* error.message.includes("session") && retries < maxRetries
should_retry(message, n, max) == includes(message, "session") /\ n < max

\* No error caught.
NoError == <<>>

\* The promise withRetry returned is not settled.
Pending == [kind |-> "pending", value |-> NoError]

\* withRetry before it is called.
RetryIdle ==
    /\ rpc = "idle"
    /\ fn = "none"
    /\ maxRetries = 0
    /\ retries = 0
    /\ error = NoError
    /\ settled = Pending
    /\ fetches = [fn |-> 0, createSession |-> 0]

\* The code optimizer before any request.
OptimizerIdle == SessionIdle /\ GuardIdle /\ RetryIdle

\* The ticket service left alone, without adapters.
TicketIdle ==
    /\ config = [has_active_vectors |-> FALSE, has_historic_vectors |-> FALSE,
                 redis_client |-> FALSE, embedding_model |-> FALSE,
                 vector_field_name |-> FALSE]
    /\ cache = [k \in Keys |-> NoEntry]
    /\ index = {}
    /\ ncalls = 0
    /\ pc = "idle"
    /\ req = NoRequest
    /\ other = OtherIdle

\* The locals and the history of a call that has not started.
Fresh ==
    /\ ids = <<0, 0>>
    /\ matches = {}
    /\ ticket_data = NoTicket
    /\ notification = NoNotification
    /\ resp = NoResponse
    /\ calls = NoCalls
    /\ outcome = NotCalled
    /\ cacheHit = FALSE
    /\ indexed = FALSE
    /\ query_text = NoText

\* TicketProcessor.__init__: the stores and the cache client that could be
\* set up; the cache and the index as the service finds them.
Init ==
    /\ config \in Configs
    /\ cache = [k \in Keys |-> NoEntry]
    /\ index = SeedIndex
    /\ ncalls = 0
    /\ pc = "idle"
    /\ req = NoRequest
    /\ Fresh
    /\ other = OtherIdle
    /\ OptimizerIdle

\* The service is set up without vector stores.
HybridInit ==
    /\ config \in HybridConfigs
    /\ cache = [k \in Keys |-> NoEntry]
    /\ index = SeedIndex
    /\ ncalls = 0
    /\ pc = "idle"
    /\ req = NoRequest
    /\ Fresh
    /\ other = OtherIdle
    /\ OptimizerIdle

\* The service starts on a search index that holds no document yet.
EmptyIndexInit ==
    /\ config \in Configs
    /\ cache = [k \in Keys |-> NoEntry]
    /\ index = {}
    /\ ncalls = 0
    /\ pc = "idle"
    /\ req = NoRequest
    /\ Fresh
    /\ other = OtherIdle
    /\ OptimizerIdle

\* calls with one more invocation of each adapter of as.
Count(as) == [a \in DOMAIN calls |-> IF a \in as THEN calls[a] + 1 ELSE calls[a]]

\* The call returns r.
Return(r) ==
    /\ resp' = r
    /\ pc' = "done"

\* An exception leaves the body of process_ticket_request.
Raise(e) == Return(except_clauses(e, req.locationID))

Running == pc \notin {"idle", "done"}

---------------------------------------------------------------------------
\* The caller.

\* The caller invokes process_ticket_request(description, locationID), some
\* time after the call before; Redis has dropped the entries whose time to
\* live ran out meanwhile.
SubmitFrom(requests) ==
    /\ ~Running
    /\ ncalls < MaxCalls
    /\ \E r \in requests : req' = r
    /\ \E n \in 0..MaxTicks : cache' = expire(cache, n * TickSecs)
    /\ ncalls' = ncalls + 1
    /\ pc' = "validate"
    /\ ids' = <<0, 0>>
    /\ matches' = {}
    /\ ticket_data' = NoTicket
    /\ notification' = NoNotification
    /\ resp' = NoResponse
    /\ calls' = NoCalls
    /\ outcome' = NotCalled
    /\ cacheHit' = FALSE
    /\ indexed' = FALSE
    /\ query_text' = NoText
    /\ UNCHANGED <<optimizerVars, config, index,
                   other>>

Submit == SubmitFrom(Requests)

\* The caller sends descriptions at the limit of the summarizer.
SubmitLong == SubmitFrom(LongRequests)

\* The caller of the first of two workers.
SubmitRace ==
    /\ ncalls < MaxRaceCalls
    /\ SubmitFrom(RaceRequests)

---------------------------------------------------------------------------
\* process_ticket_request, step by step.

\* self._validate_query(description): its ValueError goes to the except
\* clause of the outermost try.
Validate ==
    /\ pc = "validate"
    /\ LET m == _validate_query(req.description)
       IN IF m # "ok"
          THEN Raise(Exc("ValueError", m))
          ELSE pc' = "cache_lookup" /\ UNCHANGED resp
    /\ UNCHANGED <<optimizerVars, config, cache, index, ncalls, req, ids, matches,
                   ticket_data, notification, calls, outcome, cacheHit, indexed,
                   query_text, other>>

\* cached_result = self._get_cached_result(query_hash); on a hit the
\* notification is generated again, for the method "Cached Result", and
\* the call returns.
CacheLookup ==
    /\ pc = "cache_lookup"
    /\ \E failed \in IF config.redis_client THEN BOOLEAN ELSE {FALSE} :
         LET cached_result ==
                 _get_cached_result(cache, config.redis_client, req, failed)
             got == IF config.redis_client THEN {"cache_get"} ELSE {}
         IN IF cached_result # <<>>
            THEN \E llmFailed \in BOOLEAN :
                   /\ ticket_data' = cached_result[2]
                   /\ notification' =
                        _generate_notification(cached_result[2], "Cached Result",
                                               llmFailed)
                   /\ cacheHit' = TRUE
                   /\ calls' = Count(got \cup {"llm"})
                   /\ Return(Response(cached_result[1], cached_result[2],
                                      notification'))
            ELSE /\ calls' = Count(got)
                 /\ pc' = "next_ids"
                 /\ UNCHANGED <<ticket_data, notification, cacheHit, resp>>
    /\ UNCHANGED <<optimizerVars, config, cache, index, ncalls, req, ids, matches, outcome,
                   indexed,
                   query_text, other>>

\* TicketID, customer_id = self._get_next_ids().
GetNextIds ==
    /\ pc = "next_ids"
    /\ \E failed \in BOOLEAN :
         \E pair \in _get_next_ids(index, failed) :
           ids' = pair
    /\ calls' = Count({"ids_scan"})
    /\ pc' = "VECTOR_ACTIVE"
    /\ UNCHANGED <<optimizerVars, config, cache, index, ncalls, req, matches, ticket_data,
                   notification, resp, outcome, cacheHit, indexed,
                   query_text, other>>

\* search_query with the summary in the place of the description.
search_query_summarized(description) == _summarize_text(description, FALSE)

\* The query every strategy is given: the description argument as it is.
search_query(description) == Text("original", description, len(description))

\* What process_ticket_request does with the result r of strategy s: an
\* exception leaves the body, a non-empty match list ends the cascade, an
\* empty one goes on to the next strategy.
After(s, r, failed, next) ==
    /\ query_text' = search_query(req.description)
    /\ IF r.raised
       THEN /\ outcome' = [outcome EXCEPT ![s] = "raised"]
            /\ Raise(Exc("RuntimeError", s))
            /\ UNCHANGED matches
       ELSE IF r.matches # {}
            THEN /\ outcome' = [outcome EXCEPT ![s] = "matched"]
                 /\ matches' = r.matches
                 /\ pc' = "estimate"
                 /\ UNCHANGED resp
            ELSE /\ outcome' = [outcome EXCEPT ![s] =
                                   IF failed THEN "fault" ELSE "empty"]
                 /\ pc' = next
                 /\ UNCHANGED <<matches, resp>>

\* if self.has_active_vectors: active_matches = self._search_vector_store(
\* description, self.active_vectorstore, locationID).
VectorActive ==
    /\ pc = "VECTOR_ACTIVE"
    /\ IF ~config.has_active_vectors
       THEN /\ outcome' = [outcome EXCEPT !["VECTOR_ACTIVE"] = "skipped"]
            /\ pc' = "VECTOR_HISTORIC"
            /\ UNCHANGED <<matches, resp, calls, query_text>>
       ELSE \E objects \in SUBSET ActiveObjects, failed \in BOOLEAN :
              \E r \in _search_vector_store(TRUE, objects, req.locationID, failed) :
                /\ calls' = Count({"VECTOR_ACTIVE", "vector_search"})
                /\ After("VECTOR_ACTIVE", r, failed, "VECTOR_HISTORIC")
    /\ UNCHANGED <<optimizerVars, config, cache, index, ncalls, req, ids, ticket_data,
                   notification, cacheHit, indexed,
                   other>>

\* if self.has_historic_vectors: history_matches = self._search_vector_store(
\* description, self.history_vectorstore, locationID).
VectorHistoric ==
    /\ pc = "VECTOR_HISTORIC"
    /\ IF ~config.has_historic_vectors
       THEN /\ outcome' = [outcome EXCEPT !["VECTOR_HISTORIC"] = "skipped"]
            /\ pc' = "HYBRID_SEARCH"
            /\ UNCHANGED <<matches, resp, calls, query_text>>
       ELSE \E objects \in SUBSET HistoryObjects, failed \in BOOLEAN :
              \E r \in _search_vector_store(TRUE, objects, req.locationID, failed) :
                /\ calls' = Count({"VECTOR_HISTORIC", "vector_search"})
                /\ After("VECTOR_HISTORIC", r, failed, "HYBRID_SEARCH")
    /\ UNCHANGED <<optimizerVars, config, cache, index, ncalls, req, ids, ticket_data,
                   notification, cacheHit, indexed,
                   other>>

\* azure_matches = self._search_azure_hybrid(description, locationID).
Hybrid ==
    /\ pc = "HYBRID_SEARCH"
    /\ \E embedFailed \in IF config.embedding_model /\ config.vector_field_name
                          THEN BOOLEAN ELSE {FALSE},
          failed \in BOOLEAN :
         /\ \E r \in _search_azure_hybrid(index, req.locationID,
                                          config.embedding_model,
                                          config.vector_field_name,
                                          embedFailed, failed) :
              After("HYBRID_SEARCH", r, failed, "TEXT_ONLY_SEARCH")
         /\ calls' = Count({"HYBRID_SEARCH", "index_search"}
                           \cup (IF config.embedding_model /\ config.vector_field_name
                                 THEN {"embed"} ELSE {})
                           \cup (IF vector_queries(config.embedding_model,
                                                   config.vector_field_name,
                                                   embedFailed)
                                 THEN {"vector_queries"} ELSE {}))
    /\ UNCHANGED <<optimizerVars, config, cache, index, ncalls, req, ids, ticket_data,
                   notification, cacheHit, indexed,
                   other>>

\* text_matches = self._search_azure_text_only(description, locationID).
TextOnly ==
    /\ pc = "TEXT_ONLY_SEARCH"
    /\ \E failed \in BOOLEAN :
         \E r \in _search_azure_text_only(index, req.locationID, failed) :
           After("TEXT_ONLY_SEARCH", r, failed, "GLOBAL_SEARCH")
    /\ calls' = Count({"TEXT_ONLY_SEARCH", "index_search"})
    /\ UNCHANGED <<optimizerVars, config, cache, index, ncalls, req, ids, ticket_data,
                   notification, cacheHit, indexed,
                   other>>

\* The global search, in a try of its own.
Global ==
    /\ pc = "GLOBAL_SEARCH"
    /\ \E failed \in BOOLEAN :
         \E r \in global_search(index, req.locationID, failed) :
           After("GLOBAL_SEARCH", r, failed, "invalid")
    /\ calls' = Count({"GLOBAL_SEARCH", "index_search"})
    /\ UNCHANGED <<optimizerVars, config, cache, index, ncalls, req, ids, ticket_data,
                   notification, cacheHit, indexed,
                   other>>

\* The strategy whose matches the call goes on with.
Matched == CHOOSE s \in StrategySet : outcome[s] = "matched"

\* estimated_time = self._calculate_estimated_time(...); ticket_data =
\* self._create_ticket(...), which summarizes the description.
Estimate ==
    /\ pc = "estimate"
    /\ \E llmFailed \in IF summarize_calls_llm(req.description)
                        THEN BOOLEAN ELSE {FALSE} :
         ticket_data' =
           _create_ticket(ids[1], ids[2], req.locationID, req.description,
                          _calculate_estimated_time(matches, time_field_of(Matched)),
                          llmFailed)
    /\ calls' = Count({"_summarize_text"}
                      \cup IF summarize_calls_llm(req.description)
                           THEN {"llm"} ELSE {})
    /\ pc' = "notify"
    /\ UNCHANGED <<optimizerVars, config, cache, index, ncalls, req, ids, matches,
                   notification, resp, outcome, cacheHit, indexed,
                   query_text, other>>

\* notification = self._generate_notification(ticket_data, method).
Notify ==
    /\ pc = "notify"
    /\ \E llmFailed \in BOOLEAN :
         notification' =
           _generate_notification(ticket_data,
                                  matching_method(Matched, config.vector_field_name),
                                  llmFailed)
    /\ calls' = Count({"llm"})
    /\ pc' = "cache_result"
    /\ UNCHANGED <<optimizerVars, config, cache, index, ncalls, req, ids, matches,
                   ticket_data, resp, outcome, cacheHit, indexed,
                   query_text, other>>

\* self._cache_result(query_hash, result); return.
CacheResult ==
    /\ pc = "cache_result"
    /\ \E failed \in IF config.redis_client THEN BOOLEAN ELSE {FALSE} :
         cache' = _cache_result(cache, config.redis_client, req,
                                <<ticket_type_of(Matched), ticket_data>>,
                                CACHE_TTL, failed)
    /\ calls' = Count(IF config.redis_client THEN {"cache_set"} ELSE {})
    /\ Return(Response(ticket_type_of(Matched), ticket_data, notification))
    /\ UNCHANGED <<optimizerVars, config, index, ncalls, req, ids, matches, ticket_data,
                   notification, outcome, cacheHit, indexed,
                   query_text, other>>

\* No strategy matched: the invalid-query result is built, cached and
\* returned.
InvalidQuery ==
    /\ pc = "invalid"
    /\ LET r == invalid_query_response(ids[1], ids[2], req.locationID)
       IN /\ \E failed \in IF config.redis_client THEN BOOLEAN ELSE {FALSE} :
               cache' = _cache_result(cache, config.redis_client, req,
                                      <<r.ticket_type, r.ticket_data>>,
                                      CACHE_TTL, failed)
          /\ ticket_data' = r.ticket_data
          /\ notification' = r.notification
          /\ Return(r)
    /\ calls' = Count(IF config.redis_client THEN {"cache_set"} ELSE {})
    /\ UNCHANGED <<optimizerVars, config, index, ncalls, req, ids, matches, outcome,
                   cacheHit, indexed,
                   query_text, other>>

---------------------------------------------------------------------------
\* add_ticket_to_search: the document it builds of a ticket.  It carries
\* no customer id, and the embedding of the description only when the
\* embedding call succeeded.
search_document(ticket, vector) ==
    IDoc(ticket.TicketID, 0, ticket.locationID,
         Num(ticket.estimated_resolution_time), vector)

\* upload_documents that drops a document whose embedding is missing.
upload_documents_vectors_only(docs, document) ==
    IF document.content_vector
    THEN { d \in docs : d.TicketID # document.TicketID } \cup {document}
    ELSE docs

\* search_client.upload_documents([document]): the document takes the
\* place of the one with its key, TicketID, when there is one.
upload_documents(docs, document) ==
    { d \in docs : d.TicketID # document.TicketID } \cup {document}

\* CallerPersists without the guard: any returned ticket is written back.
CallerPersistsAny ==
    /\ pc = "done"
    /\ ~indexed

\* When the application calls add_ticket_to_search: once, for the ticket
\* of a call that a strategy resolved and the cache did not answer.
CallerPersists ==
    /\ pc = "done"
    /\ ~indexed
    /\ ~cacheHit
    /\ resp.ticket_type \in SuccessTypes

\* add_ticket_to_search(ticket_data): a failure of the embedding call is
\* logged and the document is uploaded without a vector; a failure of the
\* upload is raised to the application as RuntimeError.
AddTicketToSearch ==
    /\ CallerPersists
    /\ \E embedFailed \in BOOLEAN, uploadFailed \in BOOLEAN :
         IF uploadFailed
         THEN UNCHANGED <<index, indexed>>
         ELSE /\ indexed' = TRUE
              /\ index' = upload_documents(
                            index, search_document(resp.ticket_data, ~embedFailed))
    /\ UNCHANGED <<optimizerVars, config, cache, ncalls, pc, req, ids, matches, ticket_data,
                   notification, resp, calls, outcome, cacheHit,
                   query_text, other>>

---------------------------------------------------------------------------
\* A second worker serves a request of its own at the same time, on the
\* same search index: it reads the identifiers, its active store resolves
\* the request, and its ticket is written back.

OtherRequest ==
    [description |-> Desc(0, MIN_QUERY_LENGTH + 1), locationID |-> "15"]

\* The ticket of the second worker's call.
OtherTicket ==
    _create_ticket(other.ids[1], other.ids[2], OtherRequest.locationID,
                   OtherRequest.description,
                   _calculate_estimated_time(
                       { result_metadata(o) : o \in ActiveObjects }, "active"),
                   FALSE)

\* TicketID, customer_id = self._get_next_ids() in the second worker: no
\* lock is taken and nothing is reserved.
OtherGetNextIds ==
    /\ other.pc = "idle"
    /\ \E failed \in BOOLEAN :
         \E pair \in _get_next_ids(index, failed) :
           other' = [pc |-> "scanned", ids |-> pair, seen |-> index]
    /\ UNCHANGED <<optimizerVars, config, cache, index, ncalls, pc, req, ids, matches,
                   ticket_data, notification, resp, calls, outcome, cacheHit,
                   indexed, query_text>>

\* add_ticket_to_search(ticket_data) for the ticket of the second worker.
OtherAddTicketToSearch ==
    /\ other.pc = "scanned"
    /\ \E embedFailed \in BOOLEAN, uploadFailed \in BOOLEAN :
         IF uploadFailed
         THEN UNCHANGED <<index, other>>
         ELSE /\ index' = upload_documents(
                            index, search_document(OtherTicket, ~embedFailed))
              /\ other' = [other EXCEPT !.pc = "written"]
    /\ UNCHANGED <<optimizerVars, config, cache, ncalls, pc, req, ids, matches, ticket_data,
                   notification, resp, calls, outcome, cacheHit, indexed,
                   query_text>>

---------------------------------------------------------------------------
Next ==
    \/ Submit
    \/ Validate
    \/ CacheLookup
    \/ GetNextIds
    \/ VectorActive
    \/ VectorHistoric
    \/ Hybrid
    \/ TextOnly
    \/ Global
    \/ Estimate
    \/ Notify
    \/ CacheResult
    \/ InvalidQuery
    \/ AddTicketToSearch

Spec == Init /\ [][Next]_vars

EmptyIndexSpec == EmptyIndexInit /\ [][Next]_vars

\* Two workers on one search index.
RaceNext ==
    \/ SubmitRace
    \/ Validate
    \/ CacheLookup
    \/ GetNextIds
    \/ VectorActive
    \/ VectorHistoric
    \/ Hybrid
    \/ TextOnly
    \/ Global
    \/ Estimate
    \/ Notify
    \/ CacheResult
    \/ InvalidQuery
    \/ AddTicketToSearch
    \/ OtherGetNextIds
    \/ OtherAddTicketToSearch

RaceSpec == Init /\ [][RaceNext]_vars

\* process_ticket_request on its own: no code of it calls
\* add_ticket_to_search, so the index stays as the calls find it.
ProcessNext ==
    \/ Submit
    \/ Validate
    \/ CacheLookup
    \/ GetNextIds
    \/ VectorActive
    \/ VectorHistoric
    \/ Hybrid
    \/ TextOnly
    \/ Global
    \/ Estimate
    \/ Notify
    \/ CacheResult
    \/ InvalidQuery

ProcessSpec == Init /\ [][ProcessNext]_vars

\* process_ticket_request of a service without vector stores.
HybridSpec == HybridInit /\ [][ProcessNext]_vars

\* The steps of a running call are taken: every adapter call returns or
\* raises.
Step ==
    \/ Validate
    \/ CacheLookup
    \/ GetNextIds
    \/ VectorActive
    \/ VectorHistoric
    \/ Hybrid
    \/ TextOnly
    \/ Global
    \/ Estimate
    \/ Notify
    \/ CacheResult
    \/ InvalidQuery

FairSpec == ProcessSpec /\ WF_vars(Step)

\* The service under long descriptions, with the application's write-back.
LongNext ==
    \/ SubmitLong
    \/ Validate
    \/ CacheLookup
    \/ GetNextIds
    \/ VectorActive
    \/ VectorHistoric
    \/ Hybrid
    \/ TextOnly
    \/ Global
    \/ Estimate
    \/ Notify
    \/ CacheResult
    \/ InvalidQuery
    \/ AddTicketToSearch

LongSpec == Init /\ [][LongNext]_vars

---------------------------------------------------------------------------
\* Code optimizer, backend/main.py: the endpoints.

\* The endpoint answers client c.
Respond(c, endpoint, status, body) ==
    http' = [client |-> c, endpoint |-> endpoint, status |-> status,
             body |-> body]

\* POST /session: create_session signs a token, sets it as the cookie of the
\* client and returns it.
CreateSession(c) ==
    /\ issued < MaxSessions
    /\ LET token == set_session_cookie(issued + 1) IN
         /\ cookies' = [cookies EXCEPT ![c] = token]
         /\ Respond(c, "/session", 200, token)
    /\ issued' = issued + 1
    /\ UNCHANGED <<STATE_, guardVars, retryVars, ticketVars>>

\* POST /clone: clone_repo_ep stores the path clone_repo returns in the
\* state of the session; a failing git clone leaves the state alone.
Clone(c) ==
    /\ \E url \in Urls, cloned \in BOOLEAN :
         LET t == get_session_token(cookies[c]) IN
           IF t.status = 401
           THEN Respond(c, "/clone", 401, "No session") /\ UNCHANGED STATE_
           ELSE IF ~cloned
           THEN Respond(c, "/clone", 500, "git clone") /\ UNCHANGED STATE_
           ELSE /\ STATE_' = [_state(STATE_, t.session_id)
                                EXCEPT ![t.session_id].repo_path = clone_repo(url)]
                /\ Respond(c, "/clone", 200, clone_repo(url))
    /\ UNCHANGED <<cookies, issued, guardVars, retryVars, ticketVars>>

\* GET /file: get_file reads repo_path of the state of the session.
GetFile(c) ==
    /\ \E exists \in BOOLEAN :
         LET t == get_session_token(cookies[c]) IN
           IF t.status = 401
           THEN Respond(c, "/file", 401, "No session") /\ UNCHANGED STATE_
           ELSE /\ STATE_' = _state(STATE_, t.session_id)
                /\ LET repo == STATE_'[t.session_id].repo_path IN
                     IF repo = NoRepo
                     THEN Respond(c, "/file", 400, "Repo not cloned")
                     ELSE IF ~exists
                     THEN Respond(c, "/file", 404, "File not found")
                     ELSE Respond(c, "/file", 200, repo)
    /\ UNCHANGED <<cookies, issued, guardVars, retryVars, ticketVars>>

\* POST /optimise: optimise appends req.feedback to the feedback list of the
\* state of the session, calls optimise_with_guardrails with the list and
\* returns the list with the optimised code.
Optimise(c) ==
    /\ \E feedback \in Feedbacks \cup {NoFeedback}, r \in GuardrailOutcomes :
         LET t == get_session_token(cookies[c]) IN
           IF t.status = 401
           THEN Respond(c, "/optimise", 401, "No session") /\ UNCHANGED STATE_
           ELSE LET st == _state(STATE_, t.session_id)
                    feedback_hist ==
                        IF feedback # NoFeedback
                        THEN Append(st[t.session_id].feedback, feedback)
                        ELSE st[t.session_id].feedback
                IN /\ Len(feedback_hist) <= MaxFeedback
                   /\ STATE_' = [st EXCEPT ![t.session_id].feedback = feedback_hist]
                   /\ Respond(c, "/optimise", optimise_status(r),
                              IF r = "returned" THEN feedback_hist ELSE <<r>>)
    /\ UNCHANGED <<cookies, issued, guardVars, retryVars, ticketVars>>

SessionNext ==
    \E c \in Clients :
        \/ CreateSession(c)
        \/ Clone(c)
        \/ GetFile(c)
        \/ Optimise(c)

SessionInit == TicketIdle /\ Fresh /\ OptimizerIdle

\* The clients of the API, in any order.
SessionSpec == SessionInit /\ [][SessionNext]_vars

---------------------------------------------------------------------------

\* Code optimizer, backend/optimizers.py: the steps of
\* optimise_with_guardrails.

\* The call ends with e.
End(e) ==
    /\ ended' = e
    /\ opc' = IF e.kind = "return" THEN "returned" ELSE "raised"

\* optimise_with_guardrails(code, feedback_history) is called.
GuardCall ==
    /\ opc = "idle"
    /\ \E c \in Codes, h \in Histories :
         /\ code' = c
         /\ feedback_history' = h
    /\ opc' = "input_guardrail"
    /\ UNCHANGED <<attempt, optimised, ended, log, rounds>>
    /\ UNCHANGED <<sessionVars, retryVars, ticketVars>>

\* ok, reason = input_guardrail(code); if not ok: raise ValueError.  The
\* first value of the loop variable is taken when the check passes.
InputGuardrail ==
    /\ opc = "input_guardrail"
    /\ \E verdict \in {"ok", "rejected", "raises"} :
         CASE verdict = "ok" ->
                /\ attempt' = 1
                /\ IF 1 \in attempts
                   THEN opc' = "optimize_once" /\ UNCHANGED ended
                   ELSE End(Raises("RuntimeError"))
           [] verdict = "rejected" ->
                End(Raises("ValueError")) /\ UNCHANGED attempt
           [] OTHER ->
                End(Raises("Exception")) /\ UNCHANGED attempt
    /\ UNCHANGED <<code, feedback_history, optimised, log, rounds>>
    /\ UNCHANGED <<sessionVars, retryVars, ticketVars>>

\* optimised = _optimize_once(code); an exception of the chain leaves the
\* function.
OptimizeOnce ==
    /\ opc = "optimize_once"
    /\ rounds' = rounds + 1
    /\ \E answered \in BOOLEAN :
         IF answered
         THEN /\ optimised' = _optimize_once(code, attempt)
              /\ opc' = "output_guardrail"
              /\ UNCHANGED ended
         ELSE End(Raises("Exception")) /\ UNCHANGED optimised
    /\ UNCHANGED <<code, feedback_history, attempt, log>>
    /\ UNCHANGED <<sessionVars, retryVars, ticketVars>>

\* if output_guardrail(optimised, feedback_history): log and return
\* optimised; else log a warning and go on with the next value of attempt, or
\* raise RuntimeError behind the loop.
OutputGuardrail ==
    /\ opc = "output_guardrail"
    /\ \E verdict \in {"pass", "fail", "raises"} :
         CASE verdict = "pass" ->
                /\ log' = Append(log, [level |-> "info", try |-> attempt])
                /\ End(Return_(optimised))
                /\ UNCHANGED attempt
           [] verdict = "fail" ->
                /\ log' = Append(log, [level |-> "warning", try |-> attempt])
                /\ IF attempt + 1 \in attempts
                   THEN /\ attempt' = attempt + 1
                        /\ opc' = "optimize_once"
                        /\ UNCHANGED ended
                   ELSE End(Raises("RuntimeError")) /\ UNCHANGED attempt
           [] OTHER ->
                End(Raises("Exception")) /\ UNCHANGED <<attempt, log>>
    /\ UNCHANGED <<code, feedback_history, optimised, rounds>>
    /\ UNCHANGED <<sessionVars, retryVars, ticketVars>>

\* The steps of a running call of optimise_with_guardrails.
GuardStep ==
    \/ InputGuardrail
    \/ OptimizeOnce
    \/ OutputGuardrail

GuardNext ==
    \/ GuardCall
    \/ InputGuardrail
    \/ OptimizeOnce
    \/ OutputGuardrail

\* One call of optimise_with_guardrails.  Its steps are taken: the code is
\* sequential and every call to the LLM returns or raises.
GuardSpec == SessionInit /\ [][GuardNext]_vars /\ WF_vars(GuardStep)

---------------------------------------------------------------------------

\* Code optimizer, frontend/src/api.js: the steps of withRetry.

\* The promise settles.
Settle(kind, value) ==
    /\ settled' = [kind |-> kind, value |-> value]
    /\ rpc' = IF kind = "fulfilled" THEN "returned" ELSE "thrown"

\* withRetry(fn, maxRetries) is called by cloneRepo, getFile or optimise:
\* let retries = 0.
withRetry ==
    /\ rpc = "idle"
    /\ \E f \in ApiCalls, m \in (0 .. MaxRetriesArg) \cup {DEFAULT_MAX_RETRIES} :
         /\ fn' = f
         /\ maxRetries' = m
    /\ retries' = 0
    /\ rpc' = "fn"
    /\ UNCHANGED <<error, settled, fetches>>
    /\ UNCHANGED <<sessionVars, guardVars, ticketVars>>

\* try { return await fn(); } catch (error)
awaitFn ==
    /\ rpc = "fn"
    /\ fetches' = [fetches EXCEPT !.fn = @ + 1]
    /\ \/ Settle("fulfilled", NoError) /\ UNCHANGED error
       \/ \E e \in FnMessages(fn) :
            /\ error' = e
            /\ rpc' = "catch"
            /\ UNCHANGED settled
    /\ UNCHANGED <<fn, maxRetries, retries>>
    /\ UNCHANGED <<sessionVars, guardVars, ticketVars>>

\* The catch clause: retry, or throw error.
catch ==
    /\ rpc = "catch"
    /\ IF should_retry(error, retries, maxRetries)
       THEN rpc' = "createSession" /\ UNCHANGED settled
       ELSE Settle("rejected", error)
    /\ UNCHANGED <<fn, maxRetries, retries, error, fetches>>
    /\ UNCHANGED <<sessionVars, guardVars, ticketVars>>

\* await createSession(); retries++.  An error of createSession is thrown
\* inside the catch clause and leaves withRetry.
createSession ==
    /\ rpc = "createSession"
    /\ fetches' = [fetches EXCEPT !.createSession = @ + 1]
    /\ \/ /\ retries' = retries + 1
          /\ rpc' = "fn"
          /\ UNCHANGED settled
       \/ \E e \in SessionMessages :
            Settle("rejected", e) /\ UNCHANGED retries
    /\ UNCHANGED <<fn, maxRetries, error>>
    /\ UNCHANGED <<sessionVars, guardVars, ticketVars>>

\* The steps of a running call of withRetry.
RetryStep ==
    \/ awaitFn
    \/ catch
    \/ createSession

RetryNext ==
    \/ withRetry
    \/ awaitFn
    \/ catch
    \/ createSession

\* One call of withRetry.  Its steps are taken: every fetch settles.
RetrySpec == SessionInit /\ [][RetryNext]_vars /\ WF_vars(RetryStep)

---------------------------------------------------------------------------

\* Vocabulary of the properties.

Done == pc = "done"

\* The call was not answered from the cache.
Uncached == ~cacheHit

AllTypes == SuccessTypes \cup FailureTypes

VectorStrategies == {"VECTOR_ACTIVE", "VECTOR_HISTORIC"}

FilteredStrategies == StrategySet \ {"GLOBAL_SEARCH"}

\* The strategy has a store or an index to ask.
Configured(s) ==
    CASE s = "VECTOR_ACTIVE" -> config.has_active_vectors
      [] s = "VECTOR_HISTORIC" -> config.has_historic_vectors
      [] OTHER -> TRUE

\* A call of the strategy's store, index or embedding model failed.
Failed(s) == outcome[s] \in {"fault", "raised"}

\* The strategy ended without matches.
NoMatches(s) == outcome[s] \in {"skipped", "empty", "fault"}

\* Every strategy ran and none produced matches.
Exhausted == \A s \in StrategySet : NoMatches(s)

Before(N) == { s \in StrategySet : Position(s) < Position(N) }

After_(N) == { s \in StrategySet : Position(s) > Position(N) }

\* The ticket type the specification assigns to each strategy.
ExpectedType(s) ==
    CASE s = "VECTOR_ACTIVE" -> "new_active_ticket"
      [] s = "VECTOR_HISTORIC" -> "new_historic_ticket"
      [] s = "HYBRID_SEARCH" -> "new_azure_search_ticket"
      [] s = "TEXT_ONLY_SEARCH" -> "new_text_search_ticket"
      [] s = "GLOBAL_SEARCH" -> "new_global_search_ticket"

---------------------------------------------------------------------------
\* C1, as stated: in a call not answered from the cache, when strategy N is
\* the first to return matches, the ticket type is N's, every strategy
\* before N was called exactly once and no strategy after N is called.
C1_AsStated ==
    \A N \in StrategySet :
      (Uncached /\ outcome[N] = "matched") =>
        /\ \A s \in Before(N) : calls[s] = 1
        /\ \A s \in After_(N) : calls[s] = 0
        /\ Done => resp.ticket_type = ExpectedType(N)

\* C1, amended: in a call not answered from the cache, when strategy N is
\* the first to return matches, the ticket type is N's, every strategy
\* before N that has a store to ask was called exactly once and returned no
\* matches, a vector strategy without a store was skipped without a call,
\* and no strategy after N is called.
C1_CascadeOrdering ==
    \A N \in StrategySet :
      (Uncached /\ outcome[N] = "matched") =>
        /\ calls[N] = 1
        /\ \A s \in Before(N) :
             IF Configured(s)
             THEN calls[s] = 1 /\ outcome[s] \in {"empty", "fault"}
             ELSE calls[s] = 0 /\ outcome[s] = "skipped"
        /\ \A s \in After_(N) : calls[s] = 0 /\ outcome[s] = "not_called"
        /\ Done => resp.ticket_type = ExpectedType(N)

\* A call that TEXT_ONLY_SEARCH resolved after the active store came back
\* empty, with no historic store.
C1_Witness ==
    /\ Done
    /\ Uncached
    /\ outcome["TEXT_ONLY_SEARCH"] = "matched"
    /\ outcome["VECTOR_ACTIVE"] = "empty"
    /\ outcome["VECTOR_HISTORIC"] = "skipped"
    /\ resp.ticket_type = "new_text_search_ticket"

C3_AsStated ==
    \A s \in StrategySet :
      (Done /\ Failed(s)) =>
        /\ resp.ticket_type # "error"
        /\ \A t \in After_(s) :
             Position(t) = Position(s) + 1 => outcome[t] # "not_called"

\* C4: a description that is empty after trimming or shorter than 20
\* characters ends the call in its first step with "validation_error";
\* no adapter has been called, the cache and the index are untouched and
\* nothing is tried again.
C4_ValidationShortCircuit ==
    [][ ( /\ pc = "validate"
          /\ \/ len(strip(req.description)) = 0
             \/ len(req.description) < MIN_QUERY_LENGTH ) =>
          /\ pc' = "done"
          /\ resp'.ticket_type = "validation_error"
          /\ calls = NoCalls /\ calls' = NoCalls
          /\ outcome' = NotCalled
          /\ UNCHANGED <<cache, index>> ]_vars

\* A description of 20 blanks was rejected.
C4_Witness ==
    /\ Done
    /\ req.description = Desc(MIN_QUERY_LENGTH, 0)
    /\ resp.ticket_type = "validation_error"
    /\ calls = NoCalls

\* C5, as stated: a call answered from the cache with a match-producing
\* result returns the cached ticket type and ticket with the fixed
\* notification "Cached Result", and calls neither a search adapter, nor
\* the LLM, nor the ID allocator, nor writes the index.
C5_AsStated ==
    (Done /\ cacheHit /\ resp.ticket_type \in SuccessTypes) =>
      /\ cache[req].present
      /\ <<resp.ticket_type, resp.ticket_data>> = json_loads(cache[req].value)
      /\ resp.notification = Notification("fixed", "Cached Result", 0)
      /\ \A a \in (Adapters \ {"cache_get"}) \cup StrategySet : calls[a] = 0

\* C6, as stated: the matches of VECTOR_ACTIVE, VECTOR_HISTORIC,
\* HYBRID_SEARCH and TEXT_ONLY_SEARCH all carry the locationID of the
\* request, so a call resolved by a document of another location ends
\* with new_global_search_ticket.
C6_AsStated ==
    /\ \A s \in FilteredStrategies :
         outcome[s] = "matched" =>
           \A m \in matches : m.locationID = req.locationID
    /\ (Done /\ Uncached /\ \E m \in matches : m.locationID # req.locationID)
         => resp.ticket_type = "new_global_search_ticket"

\* C7, as stated: a call not answered from the cache in which every
\* strategy ran without matches returns "invalid_query" with estimate 0
\* and the notification that asks for more details, and no other call
\* returns "invalid_query".
C7_AsStated ==
    Done =>
      /\ (Uncached /\ Exhausted) =>
           /\ resp.ticket_type = "invalid_query"
           /\ resp.ticket_data.estimated_resolution_time = 0
           /\ resp.notification = Notification("more_details", "", 0)
      /\ resp.ticket_type = "invalid_query" => (Uncached /\ Exhausted)

\* C7, amended: a call not answered from the cache returns
\* "invalid_query" exactly when every strategy ran without matches, and
\* then with estimate 0 and the notification that asks for more details;
\* the invalid-query result is cached like any other, so a later call may
\* return it from the cache, still with estimate 0.
C7_Exhaustion ==
    Done =>
      /\ Uncached =>
           /\ Exhausted <=> resp.ticket_type = "invalid_query"
           /\ Exhausted =>
                /\ resp.ticket_data.estimated_resolution_time = 0
                /\ resp.ticket_data.type = "invalid_query"
                /\ resp.notification = Notification("more_details", "", 0)
      /\ (cacheHit /\ resp.ticket_type = "invalid_query") =>
           /\ resp.ticket_data.estimated_resolution_time = 0
           /\ resp.ticket_data.type = "invalid_query"

\* Every strategy ran, the global search failed, and the call returned
\* "invalid_query".
C7_Witness ==
    /\ Done
    /\ Uncached
    /\ Exhausted
    /\ outcome["VECTOR_ACTIVE"] = "empty"
    /\ outcome["GLOBAL_SEARCH"] = "fault"
    /\ resp.ticket_type = "invalid_query"

WellFormed(r) ==
    /\ r.ticket_type \in AllTypes
    /\ r.ticket_data # NoTicket
    /\ r.notification # NoNotification
    /\ r.ticket_type \in FailureTypes =>
         /\ r.ticket_data.type = r.ticket_type
         /\ r.ticket_data.estimated_resolution_time = 0
         /\ r.ticket_data.is_valid = FALSE
    /\ r.ticket_type \in SuccessTypes => r.ticket_data.type = "complaint"

\* C9: every call ends, and with exactly one response: none exists while
\* the call runs, the one it ends with is well formed, and it is not
\* replaced afterwards.
C9_OneResponse ==
    /\ [](IF Done THEN WellFormed(resp) ELSE resp = NoResponse)
    /\ [][pc = "done" /\ pc' = "done" => resp' = resp]_vars
    /\ (pc = "validate") ~> Done

\* A call answered from the cache returned a failure type with its
\* sentinel ticket.
C9_Witness ==
    /\ Done
    /\ cacheHit
    /\ resp.ticket_type = "invalid_query"
    /\ resp.ticket_data.estimated_resolution_time = 0

\* The resolution-time property _calculate_estimated_time reads of a match
\* of strategy s.
TimeRead(m, s) ==
    IF s = "VECTOR_HISTORIC"
    THEN m.actual_resolution_time ELSE m.estimated_resolution_time

\* The tickets the cache holds.
CachedTickets ==
    { json_loads(cache[k].value)[2] : k \in { x \in Keys : cache[x].present } }

---------------------------------------------------------------------------
\* The matches whose resolution-time field for strategy s is a number.
ValidMatches(docs, s) == { m \in docs : TimeRead(m, s).kind = "num" }

\* The matches that carry the resolution-time field for strategy s at all.
CarryingMatches(docs, s) == { m \in docs : TimeRead(m, s).kind # "absent" }

RECURSIVE SumOf(_, _)
SumOf(docs, s) ==
    IF docs = {}
    THEN 0
    ELSE LET d == CHOOSE x \in docs : TRUE
         IN TimeRead(d, s).val + SumOf(docs \ {d}, s)

\* The average of the numeric times, rounded down; 24 when there is none.
AverageOfValid(docs, s) ==
    IF ValidMatches(docs, s) = {}
    THEN DEFAULT_HOURS
    ELSE SumOf(ValidMatches(docs, s), s) \div Cardinality(ValidMatches(docs, s))

\* C11, as stated: the estimate _calculate_estimated_time gives for a match
\* list skips every match whose time is missing or no number and is the
\* average of the other times rounded down, 24 when no time is valid.
C11_AsStated ==
    (pc = "notify") =>
      ticket_data.estimated_resolution_time = AverageOfValid(matches, Matched)

\* C12, as stated: a call resolved at VECTOR_HISTORIC aggregates the
\* actual_resolution_time of its matches, a call resolved at any other
\* strategy the estimated_resolution_time, and a match that carries only
\* the other field adds nothing to the aggregate.
C12_AsStated ==
    \A s \in StrategySet :
      (Done /\ Uncached /\ outcome[s] = "matched") =>
        resp.ticket_data.estimated_resolution_time =
          _calculate_estimated_time(CarryingMatches(matches, s),
                                    time_field_of(s))

---------------------------------------------------------------------------
\* A strategy resolved the running call.
Resolved == \E s \in StrategySet : outcome[s] = "matched"

\* C13, as stated: a call that a strategy resolved writes its ticket to
\* the search index before it writes the cache and before it returns.
C13_AsStated ==
    /\ (Uncached /\ Resolved /\ calls["cache_set"] > 0) => indexed
    /\ (Done /\ Uncached /\ Resolved) => indexed

\* The ticket types the persistence guard lets into the index.
PersistedTypes == SuccessTypes \cup {"invalid_query", "error"}

DegradedDocument(ticket) ==
    [TicketID |-> ticket.TicketID, customerID |-> 0,
     locationID |-> ticket.locationID,
     estimated_resolution_time |-> Num(ticket.estimated_resolution_time),
     content_vector |-> FALSE]

\* C17: whenever the ticket of a call is due to be written back, the
\* write-back can go through without an embedding: the document then
\* enters the index without a vector and the response of the call stays
\* as it was returned; a document without a vector is never in the index
\* for any other reason than such a write-back of the returned ticket.
C17_DegradedWriteBack ==
    /\ CallerPersists =>
         ENABLED ( /\ AddTicketToSearch
                   /\ DegradedDocument(resp.ticket_data) \in index'
                   /\ resp' = resp )
    /\ (Done /\ indexed) =>
         \E v \in BOOLEAN : search_document(resp.ticket_data, v) \in index

\* The ticket of a call HYBRID_SEARCH resolved is in the index without a
\* vector, and the response is as returned.
C17_Witness ==
    /\ Done
    /\ indexed
    /\ resp.ticket_type = "new_azure_search_ticket"
    /\ DegradedDocument(resp.ticket_data) \in index

\* C18, as stated: right after _get_next_ids the two identifiers are one
\* more than the largest ticket id and the largest customer id of the
\* index, or two random numbers; with an empty index they are random.
C18_AsStated ==
    (pc = "VECTOR_ACTIVE") =>
      \/ ids \in RandomTicketIDs \X RandomCustomerIDs
      \/ /\ index # {}
         /\ ids[1] = Max({ d.TicketID : d \in index }) + 1
         /\ ids[2] = Max({ d.customerID : d \in index }) + 1

\* The keys under which the cache holds a ticket.
CachedKeys == { k \in Keys : cache[k].present }

\* C19, as stated: calls made one after the other never give two tickets
\* the same ticket id or the same customer id: the tickets the cache holds
\* for different requests differ in both.
C19_AsStated ==
    \A k1 \in CachedKeys, k2 \in CachedKeys :
      k1 # k2 =>
        /\ json_loads(cache[k1].value)[2].TicketID
             # json_loads(cache[k2].value)[2].TicketID
        /\ json_loads(cache[k1].value)[2].customerID
             # json_loads(cache[k2].value)[2].customerID

---------------------------------------------------------------------------
\* The texts _summarize_text may give for a description when the LLM call
\* may fail: the description itself up to 1500 characters, else a summary
\* or the truncation.
SummarizedOrTruncated(d) ==
    IF len(d) > SUMMARY_MAX_LENGTH
    THEN { Text("summary", d, 0), Text("truncated", d, TRUNCATE_LENGTH) }
    ELSE { Text("original", d, len(d)) }

\* C14: a failure of the LLM in _generate_notification or _summarize_text
\* changes neither the ticket type nor the estimate of a call a strategy
\* resolved: the type is that of the strategy, the estimate that of its
\* matches, the notification is the LLM's text or the template with the
\* estimated hours, and the description is the summary or the truncated
\* text; a call answered from the cache returns the cached type with the
\* LLM's text or the template.  No such call ends in "invalid_query" or
\* "error" unless that is the cached result.
C14_FailuresAbsorbed ==
    /\ (Done /\ Uncached /\ Resolved) =>
         /\ resp.ticket_type = ExpectedType(Matched)
         /\ resp.ticket_data.estimated_resolution_time =
              _calculate_estimated_time(matches, time_field_of(Matched))
         /\ resp.notification.kind \in {"llm", "template"}
         /\ resp.notification.hours = resp.ticket_data.estimated_resolution_time
         /\ resp.ticket_data.description \in SummarizedOrTruncated(req.description)
    /\ (Done /\ cacheHit) =>
         /\ resp.notification.kind \in {"llm", "template"}
         /\ resp.notification.hours = resp.ticket_data.estimated_resolution_time
         /\ resp.ticket_type \notin {"error", "validation_error"}

\* Both LLM calls of a call failed: the ticket carries the truncated text,
\* the notification is the template, and the type is that of the strategy.
C14_Witness ==
    /\ Done
    /\ Uncached
    /\ outcome["VECTOR_HISTORIC"] = "matched"
    /\ resp.ticket_type = "new_historic_ticket"
    /\ resp.ticket_data.description.form = "truncated"
    /\ resp.notification = Notification("template", "", 30)

\* C15: every search of a call is given the description as it came, never
\* a summary; _summarize_text is called at most once in a call, only after
\* a strategy has matched, and before the ticket is written to the index;
\* the description of the ticket differs from that of the request only
\* when the request's is longer than 1500 characters.
C15_SummarizerPlacement ==
    /\ query_text \in {NoText, Text("original", req.description, len(req.description))}
    /\ calls["_summarize_text"] <= 1
    /\ calls["_summarize_text"] = 1 => Resolved
    /\ indexed => calls["_summarize_text"] = 1
    /\ (Uncached /\ Resolved /\ ticket_data # NoTicket) =>
         /\ calls["_summarize_text"] = 1
         /\ ticket_data.description.form = "original"
              <=> len(req.description) <= SUMMARY_MAX_LENGTH
         /\ ticket_data.description.form = "original"
              => ticket_data.description.of = req.description

\* The summary of a description of 1501 characters is in a ticket that was
\* written to the index, and the searches were given the description.
C15_Witness ==
    /\ Done
    /\ indexed
    /\ len(req.description) = SUMMARY_MAX_LENGTH + 1
    /\ resp.ticket_data.description.form = "summary"
    /\ query_text = Text("original", req.description, len(req.description))
    /\ calls["_summarize_text"] = 1

---------------------------------------------------------------------------
\* Both workers have read their identifiers from the index as it is now,
\* and neither has written its ticket.
BothScanned ==
    /\ calls["ids_scan"] = 1
    /\ ~indexed
    /\ other.pc = "scanned"
    /\ other.seen = index

\* C20: nothing keeps one worker from reading its identifiers while the
\* other is between its own read and its write; when both have read the
\* index before either has written, and neither fell back to random
\* numbers, both hold the same ticket id, one more than the largest of the
\* index.
C20_IdRace ==
    /\ (pc = "next_ids") => ENABLED GetNextIds
    /\ (other.pc = "idle") => ENABLED OtherGetNextIds
    /\ ( /\ BothScanned
         /\ ids[1] \notin RandomTicketIDs
         /\ other.ids[1] \notin RandomTicketIDs ) =>
           /\ ids[1] = other.ids[1]
           /\ ids[1] = Max({ d.TicketID : d \in index }) + 1

\* Both workers read the seeded index, both wrote their tickets back, and
\* the two tickets, of two requests, carry the same ticket id.
C20_Witness ==
    /\ Done
    /\ Uncached
    /\ Resolved
    /\ indexed
    /\ other.pc = "written"
    /\ other.seen = SeedIndex
    /\ resp.ticket_data.TicketID = OtherTicket.TicketID
    /\ resp.ticket_data.TicketID \notin RandomTicketIDs
    /\ resp.ticket_data.description # OtherTicket.description

---------------------------------------------------------------------------
\* The call is past its cache lookup and went on as after a miss.
PastLookup == pc \notin {"idle", "validate", "cache_lookup"} /\ ~cacheHit

\* C21: a vector strategy whose store is not configured is skipped without
\* a call to the store and the cascade goes on with the next strategy;
\* with no cache client neither get nor set is called, nothing is stored,
\* no call is answered from the cache, and every valid call runs the
\* cascade and returns what the cascade gave, as after a miss.
C21_AbsentCollaborators ==
    /\ ~config.has_active_vectors =>
         /\ calls["VECTOR_ACTIVE"] = 0
         /\ outcome["VECTOR_ACTIVE"] \in {"not_called", "skipped"}
    /\ ~config.has_historic_vectors =>
         /\ calls["VECTOR_HISTORIC"] = 0
         /\ outcome["VECTOR_HISTORIC"] \in {"not_called", "skipped"}
    /\ (~config.has_active_vectors /\ ~config.has_historic_vectors) =>
         calls["vector_search"] = 0
    /\ outcome["VECTOR_ACTIVE"] = "skipped" =>
         (pc = "VECTOR_HISTORIC" \/ outcome["VECTOR_HISTORIC"] # "not_called")
    /\ outcome["VECTOR_HISTORIC"] = "skipped" =>
         (pc = "HYBRID_SEARCH" \/ outcome["HYBRID_SEARCH"] # "not_called")
    /\ ~config.redis_client =>
         /\ calls["cache_get"] = 0
         /\ calls["cache_set"] = 0
         /\ ~cacheHit
         /\ \A k \in Keys : ~cache[k].present
         /\ (Done /\ resp.ticket_type # "validation_error") =>
              calls["ids_scan"] = 1
         /\ (Done /\ Resolved) =>
              resp = Response(ticket_type_of(Matched), ticket_data, notification)

\* With no store and no cache client, the second call of a run was
\* resolved by HYBRID_SEARCH after both vector strategies were skipped.
C21_Witness ==
    /\ Done
    /\ ncalls = MaxCalls
    /\ ~config.has_active_vectors
    /\ ~config.has_historic_vectors
    /\ ~config.redis_client
    /\ outcome["VECTOR_ACTIVE"] = "skipped"
    /\ outcome["VECTOR_HISTORIC"] = "skipped"
    /\ resp.ticket_type = "new_azure_search_ticket"
    /\ calls["cache_set"] = 0

---------------------------------------------------------------------------
\* The caller submits a request: the step in which time passes.
TimePasses == pc' = "validate"

\* C22, as stated: an entry that has not expired when a call looks its
\* request up is served, so no call goes on past the lookup while the
\* cache holds an entry for its request; and an entry changes only by
\* expiry: it is never replaced.
C22_AsStated ==
    /\ []((Running /\ PastLookup) => ~cache[req].present)
    /\ [][\A k \in Keys :
            (cache[k].present /\ cache'[k] # cache[k]) => TimePasses]_vars

\* C22, amended: a call answered from the cache returns the stored entry,
\* which is at most 3600 s old; an entry that has not expired can be
\* served, and the lookup of a request either serves its entry or, when
\* the read fails, goes on as after a miss; with no entry the call runs
\* the cascade.  Entries are written with a time to live of 3600 s; the
\* passing of time only shortens it and removes the entry when it has run
\* out; apart from that an entry changes only when a call for the same
\* request, not answered from the cache, writes its own result over it.
C22_CacheExpiry ==
    /\ []((Done /\ cacheHit) =>
            /\ cache[req].present
            /\ cache[req].ttl \in 1..CACHE_TTL
            /\ <<resp.ticket_type, resp.ticket_data>> = json_loads(cache[req].value))
    /\ []((pc = "cache_lookup" /\ cache[req].present) =>
            ENABLED (CacheLookup /\ cacheHit'))
    /\ [][(pc = "cache_lookup") =>
            IF cache[req].present
            THEN cacheHit' \/ pc' = "next_ids"
            ELSE ~cacheHit' /\ pc' = "next_ids"]_vars
    /\ [][TimePasses =>
            \A k \in Keys :
              \/ cache'[k] = cache[k]
              \/ /\ cache[k].present
                 /\ \/ cache'[k] = NoEntry
                    \/ /\ cache'[k].present
                       /\ cache'[k].value = cache[k].value
                       /\ cache'[k].ttl \in 1..(cache[k].ttl - 1)]_vars
    /\ [][~TimePasses =>
            \A k \in Keys :
              cache'[k] # cache[k] =>
                /\ k = req
                /\ pc \in {"cache_result", "invalid"}
                /\ ~cacheHit
                /\ cache'[k].present
                /\ cache'[k].ttl = CACHE_TTL
                /\ cache'[k].value = json_dumps(<<resp'.ticket_type, resp'.ticket_data>>)]_vars

\* A call was answered from an entry written 1800 s before.
C22_Witness ==
    /\ Done
    /\ cacheHit
    /\ cache[req].present
    /\ cache[req].ttl = CACHE_TTL - TickSecs
    /\ resp.ticket_type \in SuccessTypes

---------------------------------------------------------------------------
WrittenDocuments ==
    { d \in index \ SeedIndex : d.TicketID \notin RandomTicketIDs }

---------------------------------------------------------------------------
\* C24: the ticket built in a call that a strategy resolved has type
\* "complaint" and clusterID 5, carries the two identifiers _get_next_ids
\* returned to this call, the estimate the estimator gives for the matches
\* of the strategy, and the locationID of the request, whatever the
\* location of the matches; that ticket is the one returned.
C24_TicketConstruction ==
    (Uncached /\ Resolved /\ ticket_data # NoTicket) =>
      /\ ticket_data.type = "complaint"
      /\ ticket_data.clusterID = DEFAULT_CLUSTER
      /\ ticket_data.TicketID = ids[1]
      /\ ticket_data.customerID = ids[2]
      /\ ids \in _get_next_ids(index, FALSE) \cup _get_next_ids(index, TRUE)
      /\ ticket_data.estimated_resolution_time =
           _calculate_estimated_time(matches, time_field_of(Matched))
      /\ ticket_data.locationID = req.locationID
      /\ Done => resp.ticket_data = ticket_data

\* GLOBAL_SEARCH resolved a call for location "15" with a document of
\* another location, and the ticket carries "15".
C24_Witness ==
    /\ Done
    /\ Uncached
    /\ outcome["GLOBAL_SEARCH"] = "matched"
    /\ \A m \in matches : m.locationID # req.locationID
    /\ resp.ticket_data.locationID = "15"
    /\ resp.ticket_data.TicketID = 10
    /\ resp.ticket_data.clusterID = DEFAULT_CLUSTER

---------------------------------------------------------------------------
\* C28: whatever the cache client does, the lookup either answers the call
\* from a stored entry or lets it go on to the cascade as after a miss,
\* and it can go on so even when an entry is there (the read raised); the
\* step that writes the cache returns the type, ticket and notification
\* that were computed before it, whether the entry was written or not;
\* and a call ends in "error" only when a search strategy raised.
C28_CacheFailures ==
    /\ [][(pc = "cache_lookup") =>
            \/ pc' = "next_ids" /\ ~cacheHit' /\ resp' = NoResponse
            \/ /\ pc' = "done" /\ cacheHit'
               /\ resp'.ticket_type \in SuccessTypes \cup {"invalid_query"}]_vars
    /\ []((pc = "cache_lookup" /\ config.redis_client) =>
            ENABLED (CacheLookup /\ pc' = "next_ids"))
    /\ [][(pc = "cache_result") =>
            /\ pc' = "done"
            /\ resp' = Response(ticket_type_of(Matched), ticket_data, notification)
            /\ cache' = cache \/ cache'[req].ttl = CACHE_TTL]_vars
    /\ []((pc = "cache_result" /\ config.redis_client) =>
            ENABLED (CacheResult /\ cache' = cache))
    /\ [][(pc = "invalid") => resp'.ticket_type = "invalid_query"]_vars
    /\ []((Done /\ resp.ticket_type = "error") =>
            \E s \in StrategySet : outcome[s] = "raised")

\* The read of a live entry failed, the cascade resolved the call, the
\* write failed as well, and the call returned its result.
C28_Witness ==
    /\ Done
    /\ Uncached
    /\ Resolved
    /\ calls["cache_get"] = 1
    /\ calls["cache_set"] = 1
    /\ cache[req].present
    /\ cache[req].ttl = CACHE_TTL - TickSecs
    /\ resp = Response(ticket_type_of(Matched), ticket_data, notification)

---------------------------------------------------------------------------
\* The ticket types of the entries the cache holds.
CachedTypes == { json_loads(cache[k].value)[1] : k \in CachedKeys }

\* C30, as stated: the cache holds results of the five match-producing
\* types only, so no call answered from the cache returns another type.
C30_AsStated ==
    /\ CachedTypes \subseteq SuccessTypes
    /\ (Done /\ cacheHit) => resp.ticket_type \in SuccessTypes

\* C30, amended: the cache holds results of the five match-producing types
\* and of type "invalid_query", never of type "validation_error" or
\* "error"; a call that ends in "validation_error" or "error" has not
\* called the cache write and leaves the cache as it was; the cache is
\* written only by the step that returns the result of a strategy or of
\* the exhausted cascade.
C30_CachedTypes ==
    /\ [](CachedTypes \subseteq SuccessTypes \cup {"invalid_query"})
    /\ []((Done /\ cacheHit) =>
            resp.ticket_type \in SuccessTypes \cup {"invalid_query"})
    /\ []((Done /\ resp.ticket_type \in {"validation_error", "error"}) =>
            calls["cache_set"] = 0)
    /\ [][(pc' = "done" /\ pc # "done"
           /\ resp'.ticket_type \in {"validation_error", "error"}) =>
            cache' = cache]_vars
    /\ [][(cache' # cache /\ ~TimePasses) =>
            /\ pc \in {"cache_result", "invalid"}
            /\ resp'.ticket_type \in SuccessTypes \cup {"invalid_query"}
            /\ cache'[req].value =
                 json_dumps(<<resp'.ticket_type, resp'.ticket_data>>)]_vars

\* The second call of a request the cascade could not resolve was answered
\* from the cache with the stored invalid-query result.
C30_Witness ==
    /\ Done
    /\ cacheHit
    /\ ncalls = MaxCalls
    /\ "invalid_query" \in CachedTypes
    /\ resp.ticket_type = "invalid_query"
    /\ resp.ticket_data.type = "invalid_query"
    /\ calls["ids_scan"] = 0

---------------------------------------------------------------------------
\* The hybrid search can attach a vector query at all.
VectorCapable == config.embedding_model /\ config.vector_field_name

\* C25: the step of HYBRID_SEARCH always sends the text query, with the
\* location filter, in the same call: the embedding is asked for only with
\* an embedding model and a vector field, no vector query is attached
\* without them, and whenever no vector query is attached (nothing to
\* build it with, or building it failed) every document of the request's
\* location can still come back as the match of this stage; matches of the
\* stage carry the location of the request.
C25_HybridFallback ==
    /\ [][(pc = "HYBRID_SEARCH") =>
            /\ calls'["HYBRID_SEARCH"] = 1
            /\ calls'["index_search"] = calls["index_search"] + 1
            /\ calls'["embed"] = IF VectorCapable THEN 1 ELSE 0
            /\ ~VectorCapable => calls'["vector_queries"] = 0
            /\ outcome'["HYBRID_SEARCH"] = "matched" =>
                 \A m \in matches' : m.locationID = req.locationID]_vars
    /\ [](pc = "HYBRID_SEARCH" =>
            \A d \in index :
              d.locationID = req.locationID =>
                ENABLED ( /\ Hybrid
                          /\ calls'["vector_queries"] = 0
                          /\ outcome'["HYBRID_SEARCH"] = "matched"
                          /\ matches' = {azure_document(d)} ))

\* The embedding call of the hybrid search failed, the text query matched,
\* and the call returned the ticket of HYBRID_SEARCH.
C25_Witness ==
    /\ Done
    /\ VectorCapable
    /\ calls["embed"] = 1
    /\ calls["vector_queries"] = 0
    /\ outcome["HYBRID_SEARCH"] = "matched"
    /\ resp.ticket_type = "new_azure_search_ticket"

---------------------------------------------------------------------------
\* The session id the requests of client c run under.
session_of(c) == get_session_token(cookies[c]).session_id

\* Client c holds a session cookie.
HasSession(c) == cookies[c] # NoCookie

\* C26: two clients that each obtained a session through POST /session have
\* different session ids, and a request of one client leaves the STATE entry
\* of every other client's session as it was (so the other client's /file
\* and /optimise never see its repo_path or its feedback).
C26_AsStated ==
    /\ [](\A a, b \in Clients :
            (a # b /\ HasSession(a) /\ HasSession(b)) =>
              session_of(a) # session_of(b))
    /\ [][\A c \in Clients :
            (HasSession(c) /\ http'.client # c /\ cookies'[c] = cookies[c]) =>
              _state(STATE_', session_of(c))[session_of(c)] =
                _state(STATE_, session_of(c))[session_of(c)]]_vars

---------------------------------------------------------------------------
\* The log after n rounds, the last of which passed the output guardrail
\* or not.
RoundsLog(n, passed) ==
    [i \in 1 .. n |->
        [level |-> IF passed /\ i = n THEN "info" ELSE "warning", try |-> i]]

\* optimise_with_guardrails has returned or raised.
GuardEnded == opc \in {"returned", "raised"}

\* C27: optimise_with_guardrails never runs more than MAX_RETRIES rounds of
\* _optimize_once; a ValueError (input guardrail rejected) comes before any
\* round; a return hands back the code of the round it happens in, which
\* is the first round whose output guardrail passed; RuntimeError comes
\* only after MAX_RETRIES failed rounds; nothing runs after the call ended;
\* and every call ends.
C27_GuardrailRounds ==
    /\ [](rounds <= MAX_RETRIES)
    /\ [](ended.kind = "ValueError" => rounds = 0 /\ log = <<>>)
    /\ [](ended.kind = "return" =>
            /\ rounds = attempt
            /\ ended.value = _optimize_once(code, attempt)
            /\ log = RoundsLog(attempt, TRUE))
    /\ [](ended.kind = "RuntimeError" =>
            /\ rounds = MAX_RETRIES
            /\ log = RoundsLog(MAX_RETRIES, FALSE))
    /\ [][GuardEnded => UNCHANGED guardVars]_vars
    /\ (opc # "idle") ~> GuardEnded

\* The call returned the code of its second round, after the first round
\* failed the output guardrail.
C27_Witness ==
    /\ opc = "returned"
    /\ rounds = 2
    /\ ended = Return_(_optimize_once(code, 2))
    /\ log = RoundsLog(2, TRUE)

---------------------------------------------------------------------------
\* withRetry has settled its promise.
RetryEnded == rpc \in {"returned", "thrown"}

\* C29: withRetry calls fn at most maxRetries + 1 times; every call of fn
\* after the first follows one call of createSession; the catch clause goes
\* on to createSession only for a message that contains "session" and with
\* retries left, and throws the caught error in every other case; an error
\* of createSession is thrown without another call of fn; and every call
\* of withRetry settles.
C29_WithRetry ==
    /\ [](fetches.fn <= maxRetries + 1)
    /\ [](fetches.createSession <= fetches.fn)
    /\ [](rpc = "fn" =>
            fetches.fn = retries /\ fetches.createSession = retries)
    /\ [][(rpc = "catch" /\ rpc' = "createSession") =>
            includes(error, "session") /\ retries < maxRetries]_vars
    /\ [][(rpc = "catch"
             /\ ~(includes(error, "session") /\ retries < maxRetries)) =>
            /\ rpc' = "thrown"
            /\ settled' = [kind |-> "rejected", value |-> error]]_vars
    /\ [][(rpc = "createSession" /\ rpc' = "thrown") =>
            /\ settled'.kind = "rejected"
            /\ settled'.value \in SessionMessages
            /\ fetches'.fn = fetches.fn]_vars
    /\ (rpc # "idle") ~> RetryEnded

\* fn failed with a session error three times under maxRetries = 2: two
\* sessions were created, and the third error was thrown to the caller.
C29_Witness ==
    /\ rpc = "thrown"
    /\ maxRetries = DEFAULT_MAX_RETRIES
    /\ retries = maxRetries
    /\ fetches = [fn |-> maxRetries + 1, createSession |-> maxRetries]
    /\ includes(error, "session")
    /\ settled = [kind |-> "rejected", value |-> error]

=============================================================================
